---- MODULE Spec2Model ----
(***************************************************************************)
(* Model of the local-web-ui frontend: the chat hook (useChat), the        *)
(* streaming client (streamChat), the session hook (useSession), the       *)
(* provider hook (useProvider) and the App effects that wire them.         *)
(*                                                                         *)
(* Text is a sequence of numbers.  Every text that a streaming request r   *)
(* produces is built from numbers in r*10 .. r*10+9, so the request (and   *)
(* through it the session) a piece of text came from can be read off it.   *)
(* React state updates are taken to be rendered before the next event.     *)
(* A backend request is answered in one step: the backend handles it and   *)
(* the client receives the response at the moment the response action      *)
(* fires; requests are answered in any order.  The provider hook starts    *)
(* from an empty localStorage, and the default provider the backend        *)
(* reports at mount is the one the hook starts with.                       *)
(***************************************************************************)
EXTENDS Integers, Sequences, FiniteSets, TLC

\* ---- bounds of the model
MaxTok == 1        \* token events one request delivers
MaxCalls == 1      \* session requests the user has in flight at a time
MaxUpdates == 1    \* settings updates issued in one run
MaxLines == 3      \* lines of the response stream the read loop is run on
MaxHist == 4       \* messages of the history the window builder is run on
MaxEst == 2        \* largest token estimate of one message
MaxCtx == 5        \* largest context size, in tokens
MaxCap == 4        \* largest cap on the number of history messages

\* ---- value domains
Sessions == {"A", "B"}
NewIds == {"C"}
Ids == Sessions \cup NewIds
IdOrder == <<"A", "B", "C">>
NULL == "null"
Providers == {"ollama", "openai_compat"}
Urls == {"u1"}
Keys == {"k1"}
Models == {"m1"}
ContextValues == {2048, 4096}

VARIABLES
  \* useChat
  messages, streamingContent, isStreaming, error, abortRef,
  \* useSession
  sessions, activeSessionId, activeSession, loading,
  \* useProvider, and the browser's localStorage it persists to
  provider, baseUrl, apiKey, selectedModel, localStorage,
  \* streamChat: one record per request, and the number of requests started
  req, nreq,
  \* session API requests in flight
  calls,
  \* backend session store
  store,
  \* number of settings updates issued so far
  nupd,
  \* the read loop of one streamChat call, taken alone: the lines the backend
  \* wrote, what of them is still on the wire, the line buffer of the loop
  \* and the callbacks invoked so far
  sent, wire, buffer, relayed,
  \* the memory window builder, taken alone: its inputs (the history as the
  \* token estimates of its messages, the estimate of the system prompt, the
  \* two token settings, the message cap) and the window it built
  history, systemTokens, maxContextTokens, maxResponseTokens, capN, window,
  \* backend session store: which ids are unused, stored or deleted
  backend,
  \* MessageInput: the text in the input box
  draft,
  \* useProvider: the model list, the connection status and the loading flag;
  \* the provider requests in flight, the number issued so far, and whether
  \* the debounce timer of the auto-fetch effect is pending
  models, connectionStatus, modelsLoading, fetches, nfetch, fetchTimer

chatVars == <<messages, streamingContent, isStreaming, error, abortRef>>
sessVars == <<sessions, activeSessionId, activeSession, loading>>
provVars == <<provider, baseUrl, apiKey, selectedModel, localStorage>>
reqVars == <<req, nreq>>
loopVars == <<sent, wire, buffer, relayed>>
windowVars == <<history, systemTokens, maxContextTokens, maxResponseTokens, capN, window>>
modelVars == <<models, connectionStatus, modelsLoading, fetches, nfetch, fetchTimer>>
vars == <<chatVars, sessVars, provVars, reqVars, calls, store, nupd, loopVars, windowVars,
          backend, draft, modelVars>>

\* MessageInput: the text typed, as its characters, and the number of files
\* attached
EmptyDraft == [text |-> <<>>, files |-> 0]

\* ---- text
Token(r, i) == <<r * 10 + i>>
UserText(r) == <<r * 10>>
FinalText(r) == <<r * 10 + 9>>

RECURSIVE TokenConcat(_, _)
TokenConcat(r, k) == IF k = 0 THEN <<>> ELSE TokenConcat(r, k - 1) \o Token(r, k)

UserMsg(content) == [role |-> "user", content |-> content]
AssistantMsg(content) == [role |-> "assistant", content |-> content]

\* ---- backend session store
DefaultSettings ==
  [provider |-> "ollama", base_url |-> NULL, api_key |-> NULL, model |-> NULL,
   max_context |-> 4096, max_response_tokens |-> 800, low_vram_mode |-> FALSE]

\* the settings of a session in which Low-VRAM mode was turned on
LowVramSettings ==
  [DefaultSettings EXCEPT !.low_vram_mode = TRUE, !.max_context = 2048,
                          !.max_response_tokens = 500]

\* no settings at all: every field reads as undefined
NoSettings ==
  [provider |-> NULL, base_url |-> NULL, api_key |-> NULL, model |-> NULL,
   max_context |-> 0, max_response_tokens |-> 0, low_vram_mode |-> FALSE]

\* activeSession === null
NoSession == [id |-> NULL, messages |-> <<>>, settings |-> NoSettings]

\* the session object the backend returns for GET /sessions/:id
SessionView(s) == [id |-> s, messages |-> store[s].messages, settings |-> store[s].settings]

\* the session list the backend returns for GET /sessions
Stored(s) == backend[s] = "stored"
ServerList == SelectSeq(IdOrder, Stored)

\* ---- streamChat request records
NoReq ==
  [sid |-> NULL, refreshId |-> NULL, pos |-> "none", aborted |-> FALSE,
   ntok |-> 0, term |-> "none", full |-> <<>>, nDone |-> 0, nErr |-> 0,
   phase |-> "Idle"]

InFlight(r) == req[r].pos \in {"fetch", "errbody", "read"}

\* started, and neither completed, failed, cancelled nor ended
Active(r) == InFlight(r) /\ req[r].phase \in {"Requesting", "Streaming"}

\* the promise chain of a request has ended: its reader, its signal and the
\* stream behind it are gone, and only what was observed of it is kept
Closed(q) ==
  [q EXCEPT !.pos = "closed", !.refreshId = NULL, !.aborted = FALSE,
            !.ntok = 0, !.term = "none", !.full = <<>>]

\* the streaming requests of one run, in the order they are started: two,
\* so that a request can overlap with the one started before it
ReqIds == {1, 2}

Call(op, sid, from, data) == [op |-> op, sid |-> sid, from |-> from, data |-> data]
NoData == NoSettings

\* ---- provider requests: a model listing or a connection probe, with the
\* provider, URL and key its caller closed over
Fetch(n, op, p, u, k) ==
  [id |-> n, op |-> op, provider |-> p,
   url |-> IF p = "ollama" \/ u = "" THEN NULL ELSE u,
   key |-> IF p = "ollama" \/ k = "" THEN NULL ELSE k,
   state |-> "pending"]

\* ---- localStorage, as useProvider uses it
EmptyStorage ==
  [provider |-> NULL, providerBaseUrl |-> NULL, providerApiKey |-> NULL,
   selectedModel |-> NULL]

\* the persistence effects of useProvider, run with the values p, u, k, m of
\* provider, baseUrl, apiKey and selectedModel on the storage ls
PersistProvider(ls, p, u, k, m) ==
  [provider |-> p, providerBaseUrl |-> u, providerApiKey |-> k,
   selectedModel |-> IF m # NULL THEN m ELSE ls.selectedModel]

\* the persistence effects after a render that changed the provider state
PersistEffects ==
  localStorage' = PersistProvider(localStorage, provider', baseUrl', apiKey', selectedModel')

InitHooks ==
  /\ messages = <<>>
  /\ streamingContent = <<>>
  /\ isStreaming = FALSE
  /\ error = NULL
  /\ abortRef = 0
  /\ sessions = <<>>
  /\ activeSessionId = NULL
  /\ activeSession = NoSession
  /\ loading = TRUE
  /\ provider = "ollama"
  /\ baseUrl = ""
  /\ apiKey = ""
  /\ selectedModel = NULL
  /\ localStorage = PersistProvider(EmptyStorage, "ollama", "", "", NULL)
  /\ req = [r \in ReqIds |-> NoReq]
  /\ nreq = 0
  /\ calls = {Call("list", NULL, "load", NoData)}
  /\ store = [s \in Ids |->
                [messages |-> <<>>,
                 settings |-> IF s = "B" THEN LowVramSettings ELSE DefaultSettings]]
  /\ nupd = 0
  /\ backend = [s \in Ids |-> IF s \in Sessions THEN "stored" ELSE "unused"]
  /\ draft = EmptyDraft
  /\ models = <<>>
  /\ connectionStatus = NULL
  /\ modelsLoading = TRUE
  /\ fetches = {Fetch(1, "models", "ollama", "", "")}
  /\ nfetch = 1
  /\ fetchTimer = FALSE

\* no read loop is looked at alone
LoopIdle == sent = <<>> /\ wire = <<>> /\ buffer = <<>> /\ relayed = <<>>

\* no window is being built
WindowIdle ==
  /\ history = <<>> /\ systemTokens = 0 /\ maxContextTokens = 0
  /\ maxResponseTokens = 0 /\ capN = 1 /\ window = <<>>

Init == InitHooks /\ LoopIdle /\ WindowIdle

\* ---- App effects keyed on activeSession?.id

\* useChat.syncMessages, as a function of the session
SyncedMessages(session) == IF session # NoSession THEN session.messages ELSE <<>>

\* App: sync selected model from session settings
SyncedModel(session) ==
  IF session.settings.model # NULL
    THEN session.settings.model ELSE selectedModel

\* App: sync provider and credentials from session settings
SyncedProvider(session) ==
  IF session.settings.provider # NULL
    THEN session.settings.provider ELSE provider

SyncedBaseUrl(session) ==
  IF session.settings.base_url # NULL
    THEN session.settings.base_url ELSE baseUrl

SyncedApiKey(session) ==
  IF session.settings.api_key # NULL
    THEN session.settings.api_key ELSE apiKey

IdOf(session) == session.id

\* setActiveSession(session) followed by the effects that depend on
\* activeSession?.id; they run only when the id changes
SetActiveSession(session) ==
  /\ activeSession' = session
  /\ IF IdOf(session) # IdOf(activeSession)
       THEN /\ messages' = SyncedMessages(session)
            /\ streamingContent' = <<>>
            /\ isStreaming' = FALSE
            /\ error' = NULL
            /\ selectedModel' = SyncedModel(session)
            /\ provider' = SyncedProvider(session)
            /\ baseUrl' = SyncedBaseUrl(session)
            /\ apiKey' = SyncedApiKey(session)
            /\ PersistEffects
       ELSE UNCHANGED <<messages, streamingContent, isStreaming, error, provVars>>
  /\ UNCHANGED abortRef

\* ---- useSession

\* loadSessions: listSessions() resolved; the first session is switched to.
\* The backend holds sessions from the start, so the branch that creates a
\* first session for an empty list is not taken.
LoadSessions ==
  /\ \E c \in calls :
       /\ c.op = "list"
       /\ sessions' = ServerList
       /\ calls' = (calls \ {c}) \cup
            (IF Len(ServerList) > 0 /\ activeSessionId = NULL
               THEN {Call("switch", ServerList[1], "load", NoData)} ELSE {})
       /\ loading' = (Len(ServerList) > 0 /\ activeSessionId = NULL)
  /\ UNCHANGED <<chatVars, activeSessionId, activeSession, provVars, reqVars, store, nupd, loopVars, windowVars, backend, draft, modelVars>>

\* loadSessions: listSessions() rejected
LoadSessionsFail ==
  /\ \E c \in calls :
       /\ c.op = "list"
       /\ calls' = calls \ {c}
  /\ loading' = FALSE
  /\ UNCHANGED <<chatVars, sessions, activeSessionId, activeSession, provVars, reqVars, store, nupd, loopVars, windowVars, backend, draft, modelVars>>

InList(s) == \E i \in 1..Len(sessions) : sessions[i] = s

\* switchSession(sessionId) from the sidebar: getSession is issued
SwitchSession(s) ==
  /\ ~loading
  /\ InList(s)
  /\ Cardinality(calls) < MaxCalls
  /\ calls' = calls \cup {Call("switch", s, "user", NoData)}
  /\ UNCHANGED <<chatVars, sessVars, provVars, reqVars, store, nupd, loopVars, windowVars, backend, draft, modelVars>>

\* switchSession: getSession resolved
SwitchSessionDone(c) ==
  /\ c \in calls /\ c.op = "switch"
  /\ Stored(c.sid)
  /\ calls' = calls \ {c}
  /\ activeSessionId' = c.sid
  /\ SetActiveSession(SessionView(c.sid))
  /\ loading' = IF c.from = "load" THEN FALSE ELSE loading
  /\ UNCHANGED <<sessions, reqVars, store, nupd, loopVars, windowVars, backend, draft, modelVars>>

\* switchSession as it would be if a failed switch dropped the active session
SwitchSessionFailDropsActive(c) ==
  /\ c \in calls /\ c.op = "switch"
  /\ calls' = calls \ {c}
  /\ loading' = IF c.from = "load" THEN FALSE ELSE loading
  /\ activeSessionId' = NULL
  /\ SetActiveSession(NoSession)
  /\ UNCHANGED <<sessions, reqVars, store, nupd, loopVars, windowVars, backend, draft, modelVars>>

\* switchSession: getSession rejected
SwitchSessionFail(c) ==
  /\ c \in calls /\ c.op = "switch"
  /\ calls' = calls \ {c}
  /\ loading' = IF c.from = "load" THEN FALSE ELSE loading
  /\ UNCHANGED <<chatVars, sessions, activeSessionId, activeSession, provVars, reqVars, store, nupd, loopVars, windowVars, backend, draft, modelVars>>

\* refreshActiveSession: getSession resolved
RefreshDone(c) ==
  /\ c \in calls /\ c.op = "refresh"
  /\ Stored(c.sid)
  /\ calls' = calls \ {c}
  /\ SetActiveSession(SessionView(c.sid))
  /\ UNCHANGED <<sessions, activeSessionId, loading, reqVars, store, nupd, loopVars, windowVars, backend, draft, modelVars>>

\* refreshActiveSession: getSession rejected
RefreshFail(c) ==
  /\ c \in calls /\ c.op = "refresh"
  /\ calls' = calls \ {c}
  /\ UNCHANGED <<chatVars, sessVars, provVars, reqVars, store, nupd, loopVars, windowVars, backend, draft, modelVars>>

\* ---- useChat

\* onToken
OnToken(token) ==
  /\ streamingContent' = streamingContent \o token
  /\ UNCHANGED <<messages, isStreaming, error, abortRef>>

\* onDone as it would be if it kept the accumulated tokens, not the final text
OnDoneKeepsAccumulated(fullContent) ==
  /\ streamingContent' = <<>>
  /\ messages' = Append(messages, AssistantMsg(streamingContent))
  /\ isStreaming' = FALSE
  /\ UNCHANGED <<error, abortRef>>

\* onDone, without the refreshActiveSession() call it ends with
OnDone(fullContent) ==
  /\ streamingContent' = <<>>
  /\ messages' = Append(messages, AssistantMsg(fullContent))
  /\ isStreaming' = FALSE
  /\ UNCHANGED <<error, abortRef>>

\* onError as it would be if it kept the partial answer, as stopStreaming does
OnErrorKeepsPartial(errMsg) ==
  /\ error' = errMsg
  /\ isStreaming' = FALSE
  /\ messages' = IF streamingContent # <<>>
                   THEN Append(messages, AssistantMsg(streamingContent))
                   ELSE messages
  /\ streamingContent' = <<>>
  /\ UNCHANGED abortRef

\* onError
OnError(errMsg) ==
  /\ error' = errMsg
  /\ isStreaming' = FALSE
  /\ streamingContent' = <<>>
  /\ UNCHANGED <<messages, abortRef>>

\* the guard of sendMessage (the text sent is never blank here)
SendAccepted == activeSession # NoSession /\ ~isStreaming

\* sendMessage(content): the user message is shown, streamChat issues the
\* fetch and its controller is kept in abortRef
SendMessage ==
  /\ SendAccepted
  /\ nreq + 1 \in ReqIds
  /\ LET r == nreq + 1 IN
       /\ error' = NULL
       /\ messages' = Append(messages, UserMsg(UserText(r)))
       /\ isStreaming' = TRUE
       /\ streamingContent' = <<>>
       /\ req' = [req EXCEPT ![r] =
            [NoReq EXCEPT !.sid = activeSession.id, !.refreshId = activeSessionId,
                          !.pos = "fetch", !.phase = "Requesting"]]
       /\ abortRef' = r
       /\ nreq' = r
  /\ UNCHANGED <<sessVars, provVars, calls, store, nupd, loopVars, windowVars, backend, draft, modelVars>>

\* controller.abort(): a pending fetch or read rejects with AbortError, which
\* the catch of streamChat ignores; a pending res.json() of a non-OK response
\* rejects into its own .catch(() => ({})) and the handler goes on
Aborted(q) ==
  IF q.pos \in {"fetch", "read"} THEN Closed([q EXCEPT !.phase = "Cancelled"])
  ELSE IF q.pos = "errbody" THEN [q EXCEPT !.aborted = TRUE, !.phase = "Cancelled"]
  ELSE q

\* stopStreaming
StopStreaming ==
  /\ IF abortRef # 0
       THEN /\ req' = [req EXCEPT ![abortRef] = Aborted(req[abortRef])]
            /\ abortRef' = 0
            /\ isStreaming' = FALSE
            /\ IF streamingContent # <<>>
                 THEN /\ messages' = Append(messages, AssistantMsg(streamingContent))
                      /\ streamingContent' = <<>>
                 ELSE UNCHANGED <<messages, streamingContent>>
       ELSE UNCHANGED <<req, abortRef, isStreaming, messages, streamingContent>>
  /\ UNCHANGED <<error, nreq, sessVars, provVars, calls, store, nupd, loopVars, windowVars, backend, draft, modelVars>>

\* MessageInput shows the Stop button only while isStreaming
ClickStop ==
  /\ isStreaming
  /\ StopStreaming

\* ---- streamChat: the promise chain of one request

\* fetch resolved with res.ok: the reader is taken
FetchOk(r) ==
  /\ req[r].pos = "fetch"
  /\ req' = [req EXCEPT ![r].pos = "read", ![r].phase = "Streaming"]
  /\ UNCHANGED <<chatVars, nreq, sessVars, provVars, calls, store, nupd, loopVars, windowVars, backend, draft, modelVars>>

\* fetch resolved with !res.ok: res.json() is awaited
FetchNotOk(r) ==
  /\ req[r].pos = "fetch"
  /\ req' = [req EXCEPT ![r].pos = "errbody"]
  /\ UNCHANGED <<chatVars, nreq, sessVars, provVars, calls, store, nupd, loopVars, windowVars, backend, draft, modelVars>>

\* fetch rejected (network error): .catch calls onError(err.message)
FetchReject(r) ==
  /\ req[r].pos = "fetch"
  /\ OnError("net")
  /\ req' = [req EXCEPT ![r] = Closed([@ EXCEPT !.nErr = @ + 1, !.phase = "Failed"])]
  /\ UNCHANGED <<nreq, sessVars, provVars, calls, store, nupd, loopVars, windowVars, backend, draft, modelVars>>

\* the body of the non-OK response was read, or reading it failed:
\* onError(body.detail || `Chat failed: ${res.status}`)
ErrBody(r) ==
  /\ req[r].pos = "errbody"
  /\ OnError("http")
  /\ req' = [req EXCEPT ![r] = Closed([@ EXCEPT !.nErr = @ + 1, !.phase = "Failed"])]
  /\ UNCHANGED <<nreq, sessVars, provVars, calls, store, nupd, loopVars, windowVars, backend, draft, modelVars>>

\* the event stream of the backend: token events, then one terminal event
EventsLeft(r) == req[r].term = "none"

\* reader.read() delivered a line  data: {"token": t}
ReadToken(r) ==
  /\ req[r].pos = "read" /\ EventsLeft(r)
  /\ req[r].ntok < MaxTok
  /\ OnToken(Token(r, req[r].ntok + 1))
  /\ req' = [req EXCEPT ![r].ntok = @ + 1]
  /\ UNCHANGED <<nreq, sessVars, provVars, calls, store, nupd, loopVars, windowVars, backend, draft, modelVars>>

\* the texts the backend may send as the final content of request r
FinalChoices(r) == {TokenConcat(r, req[r].ntok), FinalText(r)}

\* the backend appends the exchange to the session when it completes
Persist(r, full) ==
  [store EXCEPT ![req[r].sid].messages =
     Append(Append(@, UserMsg(UserText(r))), AssistantMsg(full))]

\* reader.read() delivered a line  data: {"content": full}; an empty content
\* is falsy and calls nothing
ReadContent(r, full) ==
  /\ req[r].pos = "read" /\ EventsLeft(r)
  /\ store' = Persist(r, full)
  /\ IF full # <<>>
       THEN /\ OnDone(full)
            /\ calls' = calls \cup {Call("refresh", req[r].refreshId, "done", NoData)}
            /\ req' = [req EXCEPT ![r].term = "content", ![r].full = full,
                                  ![r].nDone = @ + 1, ![r].phase = "Completed"]
       ELSE /\ UNCHANGED <<chatVars, calls>>
            /\ req' = [req EXCEPT ![r].term = "content", ![r].full = full]
  /\ UNCHANGED <<nreq, sessVars, provVars, nupd, loopVars, windowVars, backend, draft, modelVars>>

\* reader.read() delivered a line  data: {"error": message}
ReadError(r) ==
  /\ req[r].pos = "read" /\ EventsLeft(r)
  /\ OnError("srv")
  /\ req' = [req EXCEPT ![r].term = "error", ![r].nErr = @ + 1, ![r].phase = "Failed"]
  /\ UNCHANGED <<nreq, sessVars, provVars, calls, store, nupd, loopVars, windowVars, backend, draft, modelVars>>

\* reader.read() reported done: the loop ends, nothing is called
ReadDone(r) ==
  /\ req[r].pos = "read"
  /\ req' = [req EXCEPT ![r] = Closed(@)]
  /\ UNCHANGED <<chatVars, nreq, sessVars, provVars, calls, store, nupd, loopVars, windowVars, backend, draft, modelVars>>

\* reader.read() rejected (network error): .catch calls onError(err.message)
ReadReject(r) ==
  /\ req[r].pos = "read"
  /\ OnError("net")
  /\ req' = [req EXCEPT ![r] = Closed([@ EXCEPT !.nErr = @ + 1, !.phase = "Failed"])]
  /\ UNCHANGED <<nreq, sessVars, provVars, calls, store, nupd, loopVars, windowVars, backend, draft, modelVars>>

\* ---- the chat specification: sessions, sending, streaming, stopping
Next ==
  \/ LoadSessions
  \/ LoadSessionsFail
  \/ \E s \in Sessions : SwitchSession(s)
  \/ \E c \in calls : SwitchSessionDone(c)
  \/ \E c \in calls : SwitchSessionFail(c)
  \/ \E c \in calls : RefreshDone(c)
  \/ \E c \in calls : RefreshFail(c)
  \/ SendMessage
  \/ ClickStop
  \/ \E r \in ReqIds : FetchOk(r)
  \/ \E r \in ReqIds : FetchNotOk(r)
  \/ \E r \in ReqIds : FetchReject(r)
  \/ \E r \in ReqIds : ErrBody(r)
  \/ \E r \in ReqIds : ReadToken(r)
  \/ \E r \in ReqIds : \E full \in FinalChoices(r) : ReadContent(r, full)
  \/ \E r \in ReqIds : ReadError(r)
  \/ \E r \in ReqIds : ReadDone(r)
  \/ \E r \in ReqIds : ReadReject(r)

Spec == Init /\ [][Next]_vars

\* ---- provider panel, model selector and performance controls

OrNull(x) == IF x = "" THEN NULL ELSE x

\* ProviderSettings: the provider toggle
SetProvider(p) ==
  /\ ~loading
  /\ provider' = p
  /\ UNCHANGED <<chatVars, sessVars, baseUrl, apiKey, selectedModel, reqVars, calls, store, nupd, loopVars, windowVars, backend, draft, modelVars>>
  /\ PersistEffects

\* ProviderSettings: the URL input, shown for the remote provider
SetBaseUrl(u) ==
  /\ ~loading
  /\ provider = "openai_compat"
  /\ baseUrl' = u
  /\ UNCHANGED <<chatVars, sessVars, provider, apiKey, selectedModel, reqVars, calls, store, nupd, loopVars, windowVars, backend, draft, modelVars>>
  /\ PersistEffects

\* ProviderSettings: the API key input, shown for the remote provider
SetApiKey(k) ==
  /\ ~loading
  /\ provider = "openai_compat"
  /\ apiKey' = k
  /\ UNCHANGED <<chatVars, sessVars, provider, baseUrl, selectedModel, reqVars, calls, store, nupd, loopVars, windowVars, backend, draft, modelVars>>
  /\ PersistEffects

\* the provider fields App writes into every settings update
WithProviderState(settings, model) ==
  [settings EXCEPT !.model = model, !.provider = provider,
                   !.base_url = OrNull(baseUrl), !.api_key = OrNull(apiKey)]

\* App.handleModelSelect(modelId)
HandleModelSelect(m) ==
  /\ ~loading
  /\ selectedModel' = m
  /\ IF activeSessionId # NULL /\ m # NULL
       THEN /\ Cardinality(calls) < MaxCalls
            /\ nupd < MaxUpdates
            /\ nupd' = nupd + 1
            /\ calls' = calls \cup
                 {Call("update", activeSessionId, "user",
                       WithProviderState(activeSession.settings, m))}
       ELSE UNCHANGED <<calls, nupd>>
  /\ UNCHANGED <<chatVars, sessVars, provider, baseUrl, apiKey, reqVars, store, loopVars, windowVars, backend, draft, modelVars>>
  /\ PersistEffects

\* PerformanceControls.handleChange('max_context', value), which calls
\* App.handlePerformanceUpdate({...settings, max_context: value})
HandlePerformanceUpdate(v) ==
  /\ ~loading
  /\ activeSessionId # NULL
  /\ Cardinality(calls) < MaxCalls
  /\ nupd < MaxUpdates
  /\ nupd' = nupd + 1
  /\ calls' = calls \cup
       {Call("update", activeSessionId, "user",
             WithProviderState([activeSession.settings EXCEPT !.max_context = v],
                               selectedModel))}
  /\ UNCHANGED <<chatVars, sessVars, provVars, reqVars, store, loopVars, windowVars, backend, draft, modelVars>>

\* the backend replaces the settings of the session by the ones sent
ServerUpdate(s, data) == [store EXCEPT ![s].settings = data]

\* updateSession: the PUT resolved with the updated session
UpdateSessionDone(c) ==
  /\ c \in calls /\ c.op = "update"
  /\ Stored(c.sid)
  /\ calls' = calls \ {c}
  /\ store' = ServerUpdate(c.sid, c.data)
  /\ LET updated == ServerUpdate(c.sid, c.data)[c.sid] IN
       SetActiveSession([id |-> c.sid, messages |-> updated.messages,
                         settings |-> updated.settings])
  /\ UNCHANGED <<sessions, activeSessionId, loading, reqVars, nupd, loopVars, windowVars, backend, draft, modelVars>>

\* updateSession: the PUT rejected
UpdateSessionFail(c) ==
  /\ c \in calls /\ c.op = "update"
  /\ calls' = calls \ {c}
  /\ UNCHANGED <<chatVars, sessVars, provVars, reqVars, store, nupd, loopVars, windowVars, backend, draft, modelVars>>

\* ---- the settings specification: sessions, provider panel, settings updates
NextSettings ==
  \/ LoadSessions
  \/ LoadSessionsFail
  \/ \E s \in Sessions : SwitchSession(s)
  \/ \E c \in calls : SwitchSessionDone(c)
  \/ \E c \in calls : SwitchSessionFail(c)
  \/ \E p \in Providers : SetProvider(p)
  \/ \E u \in Urls \cup {""} : SetBaseUrl(u)
  \/ \E k \in Keys \cup {""} : SetApiKey(k)
  \/ \E m \in Models \cup {NULL} : HandleModelSelect(m)
  \/ \E v \in ContextValues : HandlePerformanceUpdate(v)
  \/ \E c \in calls : UpdateSessionDone(c)
  \/ \E c \in calls : UpdateSessionFail(c)

SpecSettings == Init /\ [][NextSettings]_vars

\* ---- performance controls: context presets and the Low-VRAM toggle

ContextPresets == {"conservative", "balanced", "maximum"}

\* the two values applyContextPreset passes to handleChange
PresetContext(preset, isLocal) ==
  CASE preset = "conservative" -> 2048
    [] preset = "balanced" -> 4096
    [] preset = "maximum" -> IF isLocal THEN 8192 ELSE 16384

PresetResponse(preset, isLocal) ==
  CASE preset = "conservative" -> 500
    [] preset = "balanced" -> 800
    [] preset = "maximum" -> IF isLocal THEN 1024 ELSE 2048

\* PerformanceControls.applyContextPreset(preset): two handleChange calls in
\* one click, both spreading the settings of the render the click happened
\* in; each goes through App.handlePerformanceUpdate to its own PUT
ApplyContextPreset(preset) ==
  /\ ~loading
  /\ activeSessionId # NULL
  /\ Cardinality(calls) < MaxCalls
  /\ nupd < MaxUpdates
  /\ nupd' = nupd + 1
  /\ LET isLocal == provider = "ollama"
          settings == activeSession.settings IN
       calls' = calls \cup
         {Call("update", activeSessionId, "max_context",
               WithProviderState(
                 [settings EXCEPT !.max_context = PresetContext(preset, isLocal)],
                 selectedModel)),
          Call("update", activeSessionId, "max_response_tokens",
               WithProviderState(
                 [settings EXCEPT !.max_response_tokens = PresetResponse(preset, isLocal)],
                 selectedModel))}
  /\ UNCHANGED <<chatVars, sessVars, provVars, reqVars, store, loopVars, windowVars, backend, draft, modelVars>>

\* the button as it would be if turning the mode off restored the default
\* limits
LowVramUpdatesRestoring(settings) ==
  IF ~settings.low_vram_mode
    THEN [settings EXCEPT !.low_vram_mode = TRUE, !.max_context = 2048,
                          !.max_response_tokens = 500]
    ELSE [settings EXCEPT !.low_vram_mode = FALSE, !.max_context = 4096,
                          !.max_response_tokens = 800]

\* what the Low-VRAM button adds to the settings
LowVramUpdates(settings) ==
  IF ~settings.low_vram_mode
    THEN [settings EXCEPT !.low_vram_mode = TRUE, !.max_context = 2048,
                          !.max_response_tokens = 500]
    ELSE [settings EXCEPT !.low_vram_mode = FALSE]

\* PerformanceControls: the Low-VRAM button, shown for the local provider;
\* one onUpdate, which goes through App.handlePerformanceUpdate to a PUT
ToggleLowVram ==
  /\ ~loading
  /\ provider = "ollama"
  /\ activeSessionId # NULL
  /\ Cardinality(calls) < MaxCalls
  /\ nupd < MaxUpdates
  /\ nupd' = nupd + 1
  /\ calls' = calls \cup
       {Call("update", activeSessionId, "low_vram_mode",
             WithProviderState(LowVramUpdates(activeSession.settings), selectedModel))}
  /\ UNCHANGED <<chatVars, sessVars, provVars, reqVars, store, loopVars, windowVars, backend, draft, modelVars>>

\* ---- the performance specification: sessions, the provider toggle and URL,
\* the presets and the Low-VRAM toggle
NextPerf ==
  \/ LoadSessions
  \/ LoadSessionsFail
  \/ \E s \in Sessions : SwitchSession(s)
  \/ \E c \in calls : SwitchSessionDone(c)
  \/ \E c \in calls : SwitchSessionFail(c)
  \/ \E p \in Providers : SetProvider(p)
  \/ \E u \in Urls \cup {""} : SetBaseUrl(u)
  \/ \E preset \in ContextPresets : ApplyContextPreset(preset)
  \/ ToggleLowVram
  \/ \E c \in calls : UpdateSessionDone(c)
  \/ \E c \in calls : UpdateSessionFail(c)

SpecPerf == Init /\ [][NextPerf]_vars

\* ---- browser storage: presets and page reloads

\* useProvider.applyPreset(presetKey), from the preset dropdown that
\* ProviderSettings shows for the remote provider
ApplyPreset(u) ==
  /\ ~loading
  /\ provider = "openai_compat"
  /\ baseUrl' = u
  /\ provider' = "openai_compat"
  /\ selectedModel' = NULL
  /\ connectionStatus' = NULL
  /\ models' = <<>>
  /\ UNCHANGED <<chatVars, sessVars, apiKey, reqVars, calls, store, nupd, loopVars, windowVars, backend, draft,
                 modelsLoading, fetches, nfetch, fetchTimer>>
  /\ PersistEffects

\* the page is reloaded: the hooks start again, useProvider from localStorage,
\* and what was in flight is dropped
Reload ==
  /\ messages' = <<>>
  /\ streamingContent' = <<>>
  /\ isStreaming' = FALSE
  /\ error' = NULL
  /\ abortRef' = 0
  /\ sessions' = <<>>
  /\ activeSessionId' = NULL
  /\ activeSession' = NoSession
  /\ loading' = TRUE
  /\ provider' = IF localStorage.provider # NULL THEN localStorage.provider ELSE "ollama"
  /\ baseUrl' = IF localStorage.providerBaseUrl # NULL THEN localStorage.providerBaseUrl ELSE ""
  /\ apiKey' = IF localStorage.providerApiKey # NULL THEN localStorage.providerApiKey ELSE ""
  /\ selectedModel' = localStorage.selectedModel
  /\ PersistEffects
  /\ req' = [r \in ReqIds |-> IF InFlight(r) THEN Closed(req[r]) ELSE req[r]]
  /\ calls' = {Call("list", NULL, "load", NoData)}
  /\ draft' = EmptyDraft
  /\ models' = <<>>
  /\ connectionStatus' = NULL
  /\ modelsLoading' = (provider' = "ollama")
  /\ fetches' = IF provider' = "ollama" THEN {Fetch(1, "models", "ollama", "", "")} ELSE {}
  /\ nfetch' = IF provider' = "ollama" THEN 1 ELSE 0
  /\ fetchTimer' = (provider' # "ollama")
  /\ UNCHANGED <<nreq, store, nupd, loopVars, windowVars, backend>>

\* ---- the storage specification: the settings specification with presets
\* and reloads
NextStorage ==
  \/ NextSettings
  \/ \E u \in Urls : ApplyPreset(u)
  \/ Reload

SpecStorage == Init /\ [][NextStorage]_vars

\* ---- clearing the memory of a session

\* the Clear button of App: clearMemory(activeSessionId), the POST is issued
\* (one clear of a session is in flight at a time)
ClearMemory ==
  /\ ~loading
  /\ activeSessionId # NULL
  /\ Call("clear", activeSessionId, "user", NoData) \notin calls
  /\ calls' = calls \cup {Call("clear", activeSessionId, "user", NoData)}
  /\ UNCHANGED <<chatVars, sessVars, provVars, reqVars, store, nupd, loopVars, windowVars, backend, draft, modelVars>>

\* the backend empties the message sequence of the session
ServerClear(s) == [store EXCEPT ![s].messages = <<>>]

\* clearMemory: the POST resolved; the activeSessionId the callback closed
\* over is the id it was called with, so the update of activeSession runs
ClearMemoryDone(c) ==
  /\ c \in calls /\ c.op = "clear"
  /\ Stored(c.sid)
  /\ calls' = calls \ {c}
  /\ store' = ServerClear(c.sid)
  /\ activeSession' = IF activeSession # NoSession
                        THEN [activeSession EXCEPT !.messages = <<>>]
                        ELSE activeSession
  /\ UNCHANGED <<chatVars, sessions, activeSessionId, loading, provVars, reqVars, nupd, loopVars, windowVars, backend, draft, modelVars>>

\* clearMemory: the POST rejected
ClearMemoryFail(c) ==
  /\ c \in calls /\ c.op = "clear"
  /\ calls' = calls \ {c}
  /\ UNCHANGED <<chatVars, sessVars, provVars, reqVars, store, nupd, loopVars, windowVars, backend, draft, modelVars>>

\* ---- the clear specification: the chat specification with the Clear button
NextClear ==
  \/ Next
  \/ ClearMemory
  \/ \E c \in calls : ClearMemoryDone(c)
  \/ \E c \in calls : ClearMemoryFail(c)

SpecClear == Init /\ [][NextClear]_vars

\* ---- creating and deleting sessions

\* the settings of a session created with the given initial settings: the
\* fields given, the defaults for the others
InitialSettings(data) ==
  [DefaultSettings EXCEPT
     !.provider = IF data.provider # NULL THEN data.provider ELSE @,
     !.base_url = IF data.base_url # NULL THEN data.base_url ELSE @,
     !.api_key = IF data.api_key # NULL THEN data.api_key ELSE @,
     !.model = IF data.model # NULL THEN data.model ELSE @]

\* the provider configuration App passes to newSession
ProviderConfig ==
  [NoSettings EXCEPT !.provider = provider, !.base_url = OrNull(baseUrl),
                     !.api_key = OrNull(apiKey), !.model = selectedModel]

\* the New Chat button: App calls newSession(config), which takes no
\* parameter and calls createSession('New Chat'): the POST is issued without
\* provider configuration
NewSession(config) ==
  /\ ~loading
  /\ \E s \in NewIds : backend[s] = "unused"
  /\ \A c \in calls : c.op # "create"
  /\ calls' = calls \cup {Call("create", NULL, "user", NoData)}
  /\ UNCHANGED <<chatVars, sessVars, provVars, reqVars, store, nupd, loopVars, windowVars, backend, draft, modelVars>>

\* newSession: the POST resolved with the new session; it is put first in
\* the list and switchSession(session.id) is called
CreateSessionDone(c) ==
  /\ c \in calls /\ c.op = "create"
  /\ \E s \in NewIds :
       /\ backend[s] = "unused"
       /\ backend' = [backend EXCEPT ![s] = "stored"]
       /\ store' = [store EXCEPT ![s] =
            [messages |-> <<>>, settings |-> InitialSettings(c.data)]]
       /\ sessions' = <<s>> \o sessions
       /\ calls' = (calls \ {c}) \cup {Call("switch", s, "new", NoData)}
  /\ UNCHANGED <<chatVars, activeSessionId, activeSession, loading, provVars, reqVars, nupd, loopVars, windowVars, draft, modelVars>>

\* newSession: the POST rejected
CreateSessionFail(c) ==
  /\ c \in calls /\ c.op = "create"
  /\ calls' = calls \ {c}
  /\ UNCHANGED <<chatVars, sessVars, provVars, reqVars, store, nupd, loopVars, windowVars, backend, draft, modelVars>>

\* sessions.filter((s) => s.id !== sessionId)
Without(list, sid) == SelectSeq(list, LAMBDA s : s # sid)

\* what removeSession will do after the DELETE, decided with the
\* activeSessionId and the sessions of the render it was called in: nothing
\* ("keep"), switch to the first remaining session, or create one ("new")
AfterDelete(sid) ==
  IF activeSessionId # sid THEN "keep"
  ELSE IF Without(sessions, sid) # <<>> THEN Without(sessions, sid)[1]
  ELSE "new"

\* the delete button of a session in the sidebar: the DELETE is issued
RemoveSession(sid) ==
  /\ ~loading
  /\ InList(sid)
  /\ \A c \in calls : ~(c.op = "delete" /\ c.sid = sid)
  /\ calls' = calls \cup {Call("delete", sid, AfterDelete(sid), NoData)}
  /\ UNCHANGED <<chatVars, sessVars, provVars, reqVars, store, nupd, loopVars, windowVars, backend, draft, modelVars>>

\* removeSession: the DELETE resolved; the session leaves the list and the
\* follow-up chosen at the call is started
RemoveSessionDone(c) ==
  /\ c \in calls /\ c.op = "delete"
  /\ Stored(c.sid)
  /\ backend' = [backend EXCEPT ![c.sid] = "deleted"]
  /\ sessions' = Without(sessions, c.sid)
  /\ calls' = (calls \ {c}) \cup
       (IF c.from = "keep" THEN {}
        ELSE IF c.from = "new" THEN {Call("create", NULL, "delete", NoData)}
        ELSE {Call("switch", c.from, "delete", NoData)})
  /\ UNCHANGED <<chatVars, activeSessionId, activeSession, loading, provVars, reqVars, store, nupd, loopVars, windowVars, draft, modelVars>>

\* removeSession: the DELETE rejected
RemoveSessionFail(c) ==
  /\ c \in calls /\ c.op = "delete"
  /\ calls' = calls \ {c}
  /\ UNCHANGED <<chatVars, sessVars, provVars, reqVars, store, nupd, loopVars, windowVars, backend, draft, modelVars>>

\* ---- the session specification: switching, deleting, clearing and the
\* Low-VRAM button, with requests that fail
NextSessions ==
  \/ LoadSessions
  \/ LoadSessionsFail
  \/ \E s \in Ids : SwitchSession(s)
  \/ \E c \in calls : SwitchSessionDone(c)
  \/ \E c \in calls : SwitchSessionFail(c)
  \/ \E c \in calls : CreateSessionDone(c)
  \/ \E c \in calls : CreateSessionFail(c)
  \/ \E s \in Ids : RemoveSession(s)
  \/ \E c \in calls : RemoveSessionDone(c)
  \/ \E c \in calls : RemoveSessionFail(c)
  \/ ClearMemory
  \/ \E c \in calls : ClearMemoryDone(c)
  \/ \E c \in calls : ClearMemoryFail(c)
  \/ ToggleLowVram
  \/ \E c \in calls : UpdateSessionDone(c)
  \/ \E c \in calls : UpdateSessionFail(c)

SpecSessions == Init /\ [][NextSessions]_vars

\* ---- the sidebar specification: the sidebar alone, every request answered
NextSidebar ==
  \/ LoadSessions
  \/ \E s \in Ids : SwitchSession(s)
  \/ \E c \in calls : SwitchSessionDone(c)
  \/ NewSession(ProviderConfig)
  \/ \E c \in calls : CreateSessionDone(c)
  \/ \E s \in Ids : RemoveSession(s)
  \/ \E c \in calls : RemoveSessionDone(c)

SpecSidebar == Init /\ [][NextSidebar]_vars

\* ---- the read loop of streamChat, taken alone
\* A stream is a sequence of characters; a character is a record, so that
\* the payload of the k-th line can carry k and be told from the others.

Ch(c, k) == [ch |-> c, n |-> k]
NL == Ch("nl", 0)
DataPrefix == Ch("data: ", 0)
EventPrefix == Ch("event: ", 0)
Open == Ch("{", 0)
Close == Ch("}", 0)

\* the lines a backend writes: the three events, SSE event-type lines, blank
\* separator lines, keep-alive comments, and two malformed data lines
LineKinds == {"token", "content", "error", "event", "blank", "comment", "junk", "cut"}

\* the k-th line of the stream, without its line end
WireLine(kind, k) ==
  CASE kind \in {"token", "content", "error"} -> <<DataPrefix, Open, Ch(kind, k), Close>>
    [] kind = "event" -> <<EventPrefix, Ch("name", k)>>
    [] kind = "blank" -> <<>>
    [] kind = "comment" -> <<Ch(":", k)>>
    [] kind = "junk" -> <<DataPrefix, Ch("junk", k)>>
    [] kind = "cut" -> <<DataPrefix, Open, Ch("token", k)>>

RECURSIVE WireOf(_, _)
\* the characters of the lines kinds[1..m], each ended by a newline
WireOf(kinds, m) ==
  IF m = 0 THEN <<>>
  ELSE WireOf(kinds, m - 1) \o WireLine(kinds[m], m) \o <<NL>>

Streams == UNION {[1..m -> LineKinds] : m \in 0..MaxLines}

RECURSIVE SplitLines(_)
\* text.split('\n')
SplitLines(text) ==
  IF \A i \in 1..Len(text) : text[i] # NL THEN <<text>>
  ELSE LET i == CHOOSE j \in 1..Len(text) :
                  text[j] = NL /\ \A h \in 1..(j - 1) : text[h] # NL
       IN <<SubSeq(text, 1, i - 1)>> \o SplitLines(SubSeq(text, i + 1, Len(text)))

\* line.startsWith(prefix)
StartsWith(line, prefix) == Len(line) >= 1 /\ line[1] = prefix

\* JSON.parse(raw) does not throw
IsJson(raw) == Len(raw) = 3 /\ raw[1] = Open /\ raw[3] = Close

Callback(cb, k) == [cb |-> cb, n |-> k]

\* if (data.token) onToken; if (data.content) onDone; if (data.error) onError
DataCallbacks(data) ==
  (IF data.ch = "token" THEN <<Callback("onToken", data.n)>> ELSE <<>>)
  \o (IF data.ch = "content" THEN <<Callback("onDone", data.n)>> ELSE <<>>)
  \o (IF data.ch = "error" THEN <<Callback("onError", data.n)>> ELSE <<>>)

\* the loop body as it would be without the try around JSON.parse: the
\* exception reaches the catch of streamChat, which calls onError
LineCallbacksUncaught(line) ==
  IF StartsWith(line, EventPrefix) THEN <<>>
  ELSE IF StartsWith(line, DataPrefix)
    THEN IF IsJson(Tail(line))
           THEN DataCallbacks(Tail(line)[2])
           ELSE <<Callback("onError", 0)>>
    ELSE <<>>

\* the body of the loop over the lines: the callbacks one line invokes
LineCallbacks(line) ==
  IF StartsWith(line, EventPrefix) THEN <<>>
  ELSE IF StartsWith(line, DataPrefix)
    THEN IF IsJson(Tail(line)) THEN DataCallbacks(Tail(line)[2]) ELSE <<>>
    ELSE <<>>

RECURSIVE LinesCallbacks(_)
LinesCallbacks(lines) ==
  IF lines = <<>> THEN <<>>
  ELSE LineCallbacks(Head(lines)) \o LinesCallbacks(Tail(lines))

\* a response stream is ready to be read
InitLoop ==
  /\ InitHooks /\ WindowIdle
  /\ sent \in Streams
  /\ wire = WireOf(sent, Len(sent))
  /\ buffer = <<>>
  /\ relayed = <<>>

\* reader.read() delivered the next n characters: they are added to the
\* buffer, the complete lines are processed and the rest is kept
ReadChunk(n) ==
  /\ n \in 1..Len(wire)
  /\ LET lines == SplitLines(buffer \o SubSeq(wire, 1, n)) IN
       /\ buffer' = lines[Len(lines)]
       /\ relayed' = relayed \o LinesCallbacks(SubSeq(lines, 1, Len(lines) - 1))
  /\ wire' = SubSeq(wire, n + 1, Len(wire))
  /\ UNCHANGED <<chatVars, sessVars, provVars, reqVars, calls, store, nupd, sent, windowVars, backend, draft, modelVars>>

NextLoop == \E n \in 1..Len(wire) : ReadChunk(n)

SpecLoop == InitLoop /\ [][NextLoop]_vars

\* ---- the memory window builder, taken alone
\* A message is known by its place in the history and its token estimate.

Estimates == 0..MaxEst
Reserves == {0, 1}
Histories == UNION {[1..m -> Estimates] : m \in 0..MaxHist}

SystemMsg(sys) == [kind |-> "system", idx |-> 0, est |-> sys]
HistoryMsg(h, i) == [kind |-> "history", idx |-> i, est |-> h[i]]

\* step 2: historyBudget = maxContextTokens - systemTokens - maxResponseTokens
HistoryBudget(sys, ctx, resp) == ctx - sys - resp

RECURSIVE Taken(_, _, _, _, _)
\* the walk as it would be without the cap on the number of messages
TakenNoCap(h, budget, cap, k, used) ==
  IF k = Len(h) THEN k
  ELSE IF used + h[Len(h) - k] > budget
    THEN (IF k = 0 THEN 1 ELSE k)
    ELSE Taken(h, budget, cap, k + 1, used + h[Len(h) - k])

\* the walk as it would be without the rule for an oversized latest message
TakenStrict(h, budget, cap, k, used) ==
  IF k = Len(h) \/ k = cap THEN k
  ELSE IF used + h[Len(h) - k] > budget
    THEN k
    ELSE Taken(h, budget, cap, k + 1, used + h[Len(h) - k])

\* step 3: the walk from the most recent message to the oldest, with k
\* messages taken so far and their estimates summed in used; it ends when the
\* next message would exceed the budget or the cap is reached.  The most
\* recent message is taken even when it alone exceeds the budget.
Taken(h, budget, cap, k, used) ==
  IF k = Len(h) \/ k = cap THEN k
  ELSE IF used + h[Len(h) - k] > budget
    THEN (IF k = 0 THEN 1 ELSE k)
    ELSE Taken(h, budget, cap, k + 1, used + h[Len(h) - k])

RECURSIVE Suffix(_, _)
\* step 4 as it would be without reversing the subset: most recent first
SuffixNewestFirst(h, from) ==
  IF from > Len(h) THEN <<>> ELSE Suffix(h, from + 1) \o <<HistoryMsg(h, from)>>

\* step 4: the messages h[from..Len(h)] in chronological order
Suffix(h, from) ==
  IF from > Len(h) THEN <<>> ELSE <<HistoryMsg(h, from)>> \o Suffix(h, from + 1)

\* build(history, systemPrompt, maxContextTokens, maxResponseTokens)
Build(h, sys, ctx, resp, cap) ==
  IF HistoryBudget(sys, ctx, resp) <= 0 THEN <<SystemMsg(sys)>>
  ELSE <<SystemMsg(sys)>>
         \o Suffix(h, Len(h) - Taken(h, HistoryBudget(sys, ctx, resp), cap, 0, 0) + 1)

\* a send-message request is about to have its window built
InitWindow ==
  /\ InitHooks /\ LoopIdle
  /\ history \in Histories
  /\ systemTokens \in Reserves
  /\ maxContextTokens \in 0..MaxCtx
  /\ maxResponseTokens \in Reserves
  /\ capN \in 1..MaxCap
  /\ window = <<>>

\* Building: the window is built
BuildWindow ==
  /\ window = <<>>
  /\ window' = Build(history, systemTokens, maxContextTokens, maxResponseTokens, capN)
  /\ UNCHANGED <<chatVars, sessVars, provVars, reqVars, calls, store, nupd, loopVars,
                 history, systemTokens, maxContextTokens, maxResponseTokens, capN,
                 backend, draft, modelVars>>

NextWindow == BuildWindow

SpecWindow == InitWindow /\ [][NextWindow]_vars

\* ======================================================================
\* Claims
\* ======================================================================

ActiveIn(s) == {r \in ReqIds : Active(r) /\ req[r].sid = s}

\* C1: for every session at most one streaming request is in flight at a
\* time (a send while a request of the session is active is rejected).
C1_OneRequestPerSession == \A s \in Sessions : Cardinality(ActiveIn(s)) <= 1

\* the step in which stopStreaming aborts request r
StopStep(r) == abortRef = r /\ abortRef' = 0 /\ Active(r)

\* C2: when stop is issued after k >= 1 tokens of the active request were
\* relayed, the assistant message kept is the concatenation of exactly those
\* k tokens.
C2_StopKeepsRelayedTokens ==
  [][\A r \in ReqIds :
       (StopStep(r) /\ req[r].ntok >= 1) =>
         messages' = Append(messages, AssistantMsg(TokenConcat(r, req[r].ntok)))]_vars

\* C3: after stop was issued for a request, no callback of that request
\* runs any more: no onToken, no onDone and no onError, so that no error is
\* shown for a request the user stopped.
C3_NoCallbackAfterStop ==
  [][\A r \in ReqIds :
       req[r].aborted =>
         /\ req'[r].nErr = req[r].nErr
         /\ req'[r].nDone = req[r].nDone
         /\ req'[r].ntok <= req[r].ntok]_vars

\* C4: for one request onDone and onError are never both invoked and neither
\* is invoked twice: at most one terminal callback runs.
C4_OneTerminalCallback == \A r \in ReqIds : req[r].nDone + req[r].nErr <= 1

TerminalPhases == {"Completed", "Cancelled", "Failed"}

\* C5: Completed, Cancelled and Failed are final for a request: a request
\* that reached one of them never moves to another lifecycle state (its
\* lifecycle ends in exactly one of the three).
C5_TerminalIsFinal ==
  [][\A r \in ReqIds :
       req[r].phase \in TerminalPhases => req'[r].phase = req[r].phase]_vars

\* C6: once the response stream of a request has ended, for any reason,
\* isStreaming is false: the streaming flag is never left set while no
\* request is in flight.
C6_NoStuckStreaming == isStreaming => \E r \in ReqIds : InFlight(r)

\* the step in which onError of request r runs
ErrorStep(r) == req'[r].nErr > req[r].nErr

\* C7: when a request fails, no assistant message is appended, the partial
\* streamed content is discarded, the error message is stored, streaming
\* ends and no request is issued again.
C7_FailureLeavesHistory ==
  [][\A r \in ReqIds :
       ErrorStep(r) =>
         /\ messages' = messages
         /\ streamingContent' = <<>>
         /\ error' \in {"http", "net", "srv"}
         /\ ~isStreaming'
         /\ nreq' = nreq
         /\ \A q \in ReqIds : req[q].pos = "none" => req'[q].pos = "none"]_vars

\* a request failed on an error event after a token had been streamed
C7_Witness ==
  \E r \in ReqIds :
    /\ req[r].term = "error" /\ req[r].nErr = 1 /\ req[r].ntok >= 1
    /\ error = "srv" /\ streamingContent = <<>> /\ ~isStreaming
    /\ messages = <<UserMsg(UserText(r))>>

\* the step in which onDone of request r runs
DoneStep(r) == req'[r].nDone > req[r].nDone

\* C8: when a request completes with a completion marker carrying the final
\* text F, the assistant message appended is exactly F, also when F differs
\* from the concatenation of the relayed tokens; it is appended once,
\* streamingContent is reset and streaming ends.
C8_FinalTextWins ==
  [][\A r \in ReqIds :
       DoneStep(r) =>
         /\ messages' = Append(messages, AssistantMsg(req'[r].full))
         /\ streamingContent' = <<>>
         /\ ~isStreaming'
         /\ req'[r].nDone = 1]_vars

\* a request completed with a final text that is not the concatenation of
\* the tokens relayed before it
C8_Witness ==
  \E r \in ReqIds :
    /\ req[r].nDone = 1 /\ req[r].ntok >= 1
    /\ req[r].full = FinalText(r) /\ req[r].full # TokenConcat(r, req[r].ntok)
    /\ Len(messages) >= 2
    /\ messages[Len(messages)] = AssistantMsg(FinalText(r))
    /\ streamingContent = <<>> /\ ~isStreaming

\* the request a piece of text was produced by
OriginOf(c) == c \div 10

\* the session whose request produced the piece of text c
SessionOf(c) == req[OriginOf(c)].sid

TextFrom(text, s) == \A j \in 1..Len(text) : SessionOf(text[j]) = s

\* C9: the displayed messages and the displayed streaming content only hold
\* text of requests that were started in the active session.
C9_SessionIsolation ==
  /\ \A i \in 1..Len(messages) : TextFrom(messages[i].content, activeSession.id)
  /\ isStreaming => TextFrom(streamingContent, activeSession.id)

\* the provider state shows exactly the settings of the active session
ProviderStateInSync ==
  /\ provider = activeSession.settings.provider
  /\ OrNull(baseUrl) = activeSession.settings.base_url
  /\ OrNull(apiKey) = activeSession.settings.api_key
  /\ selectedModel = activeSession.settings.model

\* C10: when the active session changes from a session whose settings the
\* provider state shows to another session, the provider state (provider,
\* base URL, API key, model) equals the stored settings of the session
\* switched to: nothing of the session left stays.
C10_ProviderFollowsSession ==
  [][(/\ activeSession # NoSession
      /\ ProviderStateInSync
      /\ activeSession'.id # activeSession.id) => ProviderStateInSync']_vars

\* C11: the API key is never stored in browser storage: no entry of
\* localStorage has the API key as its value.
C11_NoApiKeyInStorage ==
  /\ localStorage.provider \notin Keys
  /\ localStorage.providerBaseUrl \notin Keys
  /\ localStorage.providerApiKey \notin Keys
  /\ localStorage.selectedModel \notin Keys

\* the step in which the clear request c is answered
ClearStep(c) == c \in calls /\ c.op = "clear" /\ c \notin calls'

\* C12: after clearMemory succeeds for a session, the message sequence of
\* that session is empty, in the store and in the client's session object,
\* everything else of the session is unchanged, and every other session is
\* unchanged (a clear that fails changes nothing).  Stated for the steps
\* that start with the session object of the active session id.
C12_ClearKeepsTheRest ==
  [][\A c \in calls :
       (ClearStep(c) /\ activeSession.id = activeSessionId) =>
         \/ UNCHANGED <<chatVars, sessVars, provVars, reqVars, store, nupd, loopVars, windowVars, backend, draft, modelVars>>
         \/ /\ store'[c.sid].messages = <<>>
            /\ store'[c.sid].settings = store[c.sid].settings
            /\ \A s \in Sessions \ {c.sid} : store'[s] = store[s]
            /\ sessions' = sessions
            /\ activeSession' = IF activeSession.id = c.sid
                                  THEN [activeSession EXCEPT !.messages = <<>>]
                                  ELSE activeSession]_vars

\* C13: while a request is streaming, the accumulated streaming content is
\* the in-order concatenation of the token events received so far for that
\* request, none dropped, duplicated or added.
C13_ContentIsTokenConcat ==
  \A r \in ReqIds :
    (isStreaming /\ abortRef = r /\ Active(r)) =>
      streamingContent = TokenConcat(r, req[r].ntok)

\* the number of lines of the stream that were received to their end
Received == Len(sent) - Cardinality({i \in 1..Len(wire) : wire[i] = NL})

\* the callback the k-th line of the stream asks for, if any
Expected(k) ==
  CASE sent[k] = "token" -> <<Callback("onToken", k)>>
    [] sent[k] = "content" -> <<Callback("onDone", k)>>
    [] sent[k] = "error" -> <<Callback("onError", k)>>
    [] OTHER -> <<>>

RECURSIVE ExpectedUpTo(_)
ExpectedUpTo(m) == IF m = 0 THEN <<>> ELSE ExpectedUpTo(m - 1) \o Expected(m)

Malformed == {"junk", "cut"}

\* C14: a malformed stream fragment is skipped: the callbacks invoked are
\* exactly those of the well-formed event lines received so far, in their
\* order, whatever malformed lines came before them and however the lines
\* were split over the reads; the loop goes on reading.
C14_MalformedSkipped == relayed = ExpectedUpTo(Received)

\* a token line that followed a malformed line was relayed, and the loop
\* holds the first part of the line after it
C14_Witness ==
  /\ Len(sent) >= 2 /\ sent[1] \in Malformed /\ sent[2] = "token"
  /\ Received = 2
  /\ relayed = <<Callback("onToken", 2)>>
  /\ buffer # <<>> /\ wire # <<>>

\* the step in which stopStreaming finds a handle in abortRef
StopWithHandle == abortRef # 0 /\ abortRef' = 0

\* C15: a stop issued while no request is active is a no-op: messages,
\* streaming content, streaming flag and error are unchanged and no request
\* is aborted.
C15_StopWithoutRequestIsNoop ==
  [][(StopWithHandle /\ \A r \in ReqIds : ~Active(r)) =>
       UNCHANGED <<messages, streamingContent, isStreaming, error, req>>]_vars

\* C16: a stream handle is held exactly while its request is in flight: the
\* handle of every active request is the one in abortRef, and once the
\* request completed, failed or was cancelled abortRef is null.
C16_HandleWhileInFlight ==
  /\ \A r \in ReqIds : Active(r) => abortRef = r
  /\ abortRef # 0 => Active(abortRef)

\* ---- the window builder

RECURSIVE SumEst(_)
\* the summed estimates of a sequence of messages
SumEst(msgs) == IF msgs = <<>> THEN 0 ELSE Head(msgs).est + SumEst(Tail(msgs))

\* the summed estimates of the k most recent messages of the history
RECURSIVE SumLast(_)
SumLast(k) == IF k = 0 THEN 0 ELSE history[Len(history) - k + 1] + SumLast(k - 1)

Budget == maxContextTokens - systemTokens - maxResponseTokens

\* the most recent message alone exceeds a positive history budget
OversizedLatest ==
  Budget > 0 /\ history # <<>> /\ history[Len(history)] > Budget

\* the k most recent messages fit the budget and the cap, and no more do
LongestFit(k) ==
  /\ k <= capN /\ SumLast(k) <= Budget
  /\ \A j \in (k + 1)..Len(history) : ~(j <= capN /\ SumLast(j) <= Budget)

\* the k most recent messages of the history, oldest first
LastMessages(k) ==
  [i \in 1..k |-> [kind |-> "history", idx |-> Len(history) - k + i,
                    est |-> history[Len(history) - k + i]]]

\* C17, as claimed: the window starts with the system prompt, holds at most
\* N history messages, and system + returned history estimates stay within
\* maxContextTokens - maxResponseTokens, except for an oversized latest
\* message.
C17_WindowWithinBudget ==
  window # <<>> =>
    /\ window[1] = [kind |-> "system", idx |-> 0, est |-> systemTokens]
    /\ Len(window) - 1 <= capN
    /\ ~OversizedLatest =>
         systemTokens + SumEst(Tail(window)) <= maxContextTokens - maxResponseTokens

\* C17, amended: the same, the bound on the tokens being claimed only when
\* the history budget is not negative (with a negative budget the system
\* prompt alone, which is all that is returned, exceeds the bound).
C17_WindowWithinBudgetIfRoom ==
  window # <<>> =>
    /\ window[1] = [kind |-> "system", idx |-> 0, est |-> systemTokens]
    /\ Len(window) - 1 <= capN
    /\ (~OversizedLatest /\ Budget >= 0) =>
         systemTokens + SumEst(Tail(window)) <= maxContextTokens - maxResponseTokens

\* a window was built that the cap cut short: the budget had room for more
C17_Witness ==
  /\ window # <<>> /\ Len(window) - 1 = capN /\ capN < Len(history)
  /\ SumLast(capN + 1) <= Budget

\* C18, as claimed: after the system prompt the window is the longest suffix
\* of the history, in chronological order, whose summed estimates do not
\* exceed historyBudget and whose length does not exceed N.
C18_LongestSuffix ==
  window # <<>> =>
    \E k \in 0..Len(history) : LongestFit(k) /\ Tail(window) = LastMessages(k)

\* C18, amended: the same, when historyBudget > 0 and the most recent message
\* alone does not exceed it.
C18_LongestSuffixIfFits ==
  (window # <<>> /\ Budget > 0 /\ ~OversizedLatest) =>
    \E k \in 0..Len(history) : LongestFit(k) /\ Tail(window) = LastMessages(k)

\* the scenario of the spec, scaled: budget 3, four messages of 1 token, a
\* cap that does not bind: exactly the 3 most recent messages are returned
C18_Witness ==
  /\ Budget = 3 /\ capN = 4
  /\ history = <<1, 1, 1, 1>>
  /\ window # <<>> /\ Tail(window) = LastMessages(3)

\* C19: with historyBudget <= 0 only the system prompt is returned; with
\* historyBudget > 0 and a non-empty history the most recent message is
\* returned, and it is the only one when its estimate exceeds the budget.
C19_LatestAlwaysSent ==
  window # <<>> =>
    /\ Budget <= 0 => window = <<[kind |-> "system", idx |-> 0, est |-> systemTokens]>>
    /\ (Budget > 0 /\ history # <<>>) =>
         /\ Len(window) >= 2
         /\ window[Len(window)] = LastMessages(1)[1]
         /\ OversizedLatest => Len(window) = 2

\* the most recent of several messages exceeds the budget and is sent alone
C19_Witness ==
  /\ OversizedLatest /\ Len(history) >= 2
  /\ window = <<[kind |-> "system", idx |-> 0, est |-> systemTokens], LastMessages(1)[1]>>

\* ---- stop before the first token

\* C20: when stop is issued while a request is active and before any of
\* its tokens was received, the request is aborted, streaming ends and no
\* assistant message, not even an empty one, is appended.
C20_StopBeforeFirstToken ==
  [][\A r \in ReqIds :
       (StopStep(r) /\ req[r].ntok = 0) =>
         /\ ~Active(r)' /\ req'[r].phase = "Cancelled"
         /\ ~isStreaming'
         /\ messages' = messages]_vars

\* the only request sent was stopped before its first token: the user
\* message is all there is
C20_Witness ==
  /\ nreq = 1 /\ req[1].phase = "Cancelled" /\ abortRef = 0
  /\ ~isStreaming /\ streamingContent = <<>>
  /\ Len(messages) = 1 /\ messages[1].role = "user"

\* ---- the active session and its id

\* C26: in every reachable state activeSession is null or is the session
\* whose id is activeSessionId, whatever the order in which the responses of
\* switchSession, updateSession, refreshActiveSession and clearMemory arrive.
C26_ActiveSessionMatchesId ==
  activeSession = NoSession \/ activeSession.id = activeSessionId

\* ---- performance controls

\* the settings updates of session s that are in flight
UpdatesOf(s) == {c \in calls : c.op = "update" /\ c.sid = s}

\* the two PUTs of applyContextPreset carry these tags
IsPresetUpdate(c) == c.op = "update" /\ c.from \in {"max_context", "max_response_tokens"}

\* the <<max_context, max_response_tokens>> pairs of the presets
PresetPairs ==
  {<<PresetContext(p, l), PresetResponse(p, l)>> : p \in ContextPresets, l \in BOOLEAN}

\* the preset pair that update c is one half of
IsHalfOf(c, pair) ==
  IF c.from = "max_context" THEN c.data.max_context = pair[1]
  ELSE c.data.max_response_tokens = pair[2]

\* the other half of the pair is what the session store holds
OtherHalfStored(c, pair) ==
  IF c.from = "max_context" THEN store[c.sid].settings.max_response_tokens = pair[2]
  ELSE store[c.sid].settings.max_context = pair[1]

SettingsPair(settings) == <<settings.max_context, settings.max_response_tokens>>

\* the PUT c is answered with the updated session
UpdateAnswered(c) == c \in calls /\ c \notin calls' /\ store' = ServerUpdate(c.sid, c.data)

\* C21: once both updates of a context preset have completed, in either
\* order, the session settings hold the preset's max_context and the
\* preset's max_response_tokens: neither is lost or reverted.
C21_PresetKeepsBothValues ==
  [][\A c \in calls : \A pair \in PresetPairs :
       (/\ IsPresetUpdate(c) /\ IsHalfOf(c, pair) /\ OtherHalfStored(c, pair)
        /\ UpdateAnswered(c)
        /\ ~\E d \in calls' : IsPresetUpdate(d))
       => /\ SettingsPair(store'[c.sid].settings) = pair
          /\ activeSession'.id = c.sid => SettingsPair(activeSession'.settings) = pair]_vars

\* the PUT the Low-VRAM button issued in this step
IsLowVramUpdate(c) == c \in calls' /\ c \notin calls /\ c.from = "low_vram_mode"

\* the settings the session has, as the client knows them, with Low-VRAM
\* mode turned on, and with it turned off
TurnedOn(settings) ==
  [settings EXCEPT !.low_vram_mode = TRUE, !.max_context = 2048,
                   !.max_response_tokens = 500]

TurnedOff(settings) == [settings EXCEPT !.low_vram_mode = FALSE]

\* C22: turning Low-VRAM mode on issues a single settings update with
\* low_vram_mode = true, max_context = 2048 and max_response_tokens = 500
\* and every other setting kept; turning it off changes only low_vram_mode.
C22_LowVramToggle ==
  [][\A c \in calls' :
       IsLowVramUpdate(c) =>
         /\ calls' = calls \cup {c}
         /\ c.sid = activeSessionId
         /\ c.data = IF activeSession.settings.low_vram_mode
                       THEN TurnedOff(activeSession.settings)
                       ELSE TurnedOn(activeSession.settings)]_vars

\* C22, amended: the update keeps every other performance setting, and its
\* model, provider, base URL and API key are the current provider state of
\* the UI, which handlePerformanceUpdate writes into every update.
C22_LowVramToggleWithProviderState ==
  [][\A c \in calls' :
       IsLowVramUpdate(c) =>
         /\ calls' = calls \cup {c}
         /\ c.sid = activeSessionId
         /\ c.data =
              [(IF activeSession.settings.low_vram_mode
                  THEN TurnedOff(activeSession.settings)
                  ELSE TurnedOn(activeSession.settings))
                EXCEPT !.model = selectedModel, !.provider = provider,
                       !.base_url = OrNull(baseUrl), !.api_key = OrNull(apiKey)]]_vars

\* Low-VRAM mode was turned off in a session that had it on, and the update
\* carries the limits the session had and a base URL the session had not
C22_Witness ==
  \E c \in calls :
    /\ c.from = "low_vram_mode" /\ ~c.data.low_vram_mode
    /\ activeSession.settings.low_vram_mode
    /\ c.data.max_context = 2048 /\ c.data.max_response_tokens = 500
    /\ c.data.base_url # activeSession.settings.base_url

\* ---- creating and deleting sessions

\* C25: creating a new chat creates the session with the current provider,
\* base URL, API key and model as its initial settings: the values App
\* passes to newSession are the ones in the create request.
C25_NewChatCarriesProvider ==
  [][\A c \in calls' :
       (c \notin calls /\ c.op = "create" /\ c.from = "user") =>
         /\ c.data.provider = provider
         /\ c.data.base_url = OrNull(baseUrl)
         /\ c.data.api_key = OrNull(apiKey)
         /\ c.data.model = selectedModel]_vars

\* C27: once loading has finished and no session request is in flight (none
\* has failed), the session list is not empty and activeSessionId is the id
\* of a session in it; after the active session was deleted another
\* session is active, never the deleted one.
C27_ActiveSessionListed ==
  (~loading /\ calls = {}) =>
    /\ sessions # <<>>
    /\ InList(activeSessionId)
    /\ Stored(activeSessionId)

\* the request c of switchSession, updateSession, removeSession or
\* clearMemory is answered in this step
SessionAnswered(c) ==
  /\ c \in calls /\ c \notin calls'
  /\ c.op \in {"switch", "update", "delete", "clear"}

\* the answer to c is a success: what the backend did, or returned, shows
SessionSucceeded(c) ==
  CASE c.op = "switch" ->
         activeSessionId' = c.sid /\ activeSession' = SessionView(c.sid)
    [] c.op = "update" ->
         /\ store' = [store EXCEPT ![c.sid].settings = c.data]
         /\ activeSession'.id = c.sid /\ activeSession'.settings = c.data
    [] c.op = "delete" -> backend'[c.sid] = "deleted"
    [] c.op = "clear" -> store'[c.sid].messages = <<>> /\ activeSession'.messages = <<>>

\* C29: when the backend request of switchSession, updateSession,
\* removeSession or clearMemory fails, sessions, activeSessionId and
\* activeSession are left exactly as they were.
C29_FailureLeavesSessionState ==
  [][\A c \in calls :
       (SessionAnswered(c) /\ ~SessionSucceeded(c)) =>
         UNCHANGED <<sessions, activeSessionId, activeSession>>]_vars

\* loading ended with the session list loaded and no session active: the
\* getSession of the first switch failed, and the list was kept
C29_Witness ==
  /\ ~loading /\ calls = {}
  /\ sessions = <<"A", "B">> /\ activeSessionId = NULL /\ activeSession = NoSession

\* ---- the message input: MessageInput.handleSend and sendMessage with any
\* text and attachments

\* the texts typed: nothing, white space, a word, a word between white space
Texts == {<<>>, <<" ">>, <<"h">>, <<" ", "h", " ">>}
FileCounts == {0, 1}

IsSpace(ch) == ch \in {" ", "\t", "\n"}

\* String.prototype.trim
RECURSIVE Trim(_)
Trim(text) ==
  IF text = <<>> THEN <<>>
  ELSE IF IsSpace(Head(text)) THEN Trim(Tail(text))
  ELSE IF IsSpace(text[Len(text)]) THEN Trim(SubSeq(text, 1, Len(text) - 1))
  ELSE text

\* the guard of sendMessage, with blank text rejected even when files are
\* attached
SendRejectedUnlessText(content, files) ==
  \/ activeSession = NoSession
  \/ Trim(content) = <<>>
  \/ isStreaming

\* the guard of sendMessage(content, webSearch, files)
SendRejected(content, files) ==
  \/ activeSession = NoSession
  \/ (Trim(content) = <<>> /\ files = 0)
  \/ isStreaming

\* sendMessage(content, webSearch, files): nothing when the guard rejects;
\* else the error is cleared, the user message is shown, streamChat issues
\* the fetch and its controller is kept in abortRef
SendMessageBody(content, files) ==
  /\ IF SendRejected(content, files)
       THEN UNCHANGED <<chatVars, reqVars>>
       ELSE /\ nreq + 1 \in ReqIds
            /\ LET r == nreq + 1 IN
                 /\ error' = NULL
                 /\ messages' = Append(messages, UserMsg(UserText(r)))
                 /\ isStreaming' = TRUE
                 /\ streamingContent' = <<>>
                 /\ req' = [req EXCEPT ![r] =
                      [NoReq EXCEPT !.sid = activeSession.id,
                                    !.refreshId = activeSessionId,
                                    !.pos = "fetch", !.phase = "Requesting"]]
                 /\ abortRef' = r
                 /\ nreq' = r
  /\ UNCHANGED <<sessVars, provVars, calls, store, nupd, loopVars, windowVars, backend, modelVars>>

\* sendMessage called with any content and files
SendMessageCall(content, files) ==
  /\ SendMessageBody(content, files)
  /\ UNCHANGED draft

\* the textarea's onChange; the textarea is disabled while no model is
\* selected
TypeText(text) ==
  /\ selectedModel # NULL
  /\ draft' = [draft EXCEPT !.text = text]
  /\ UNCHANGED <<chatVars, sessVars, provVars, reqVars, calls, store, nupd, loopVars, windowVars, backend, modelVars>>

\* handleFileSelect, once the file was read; the attach button is disabled
\* while no model is selected
AttachFile ==
  /\ selectedModel # NULL
  /\ draft.files + 1 \in FileCounts
  /\ draft' = [draft EXCEPT !.files = @ + 1]
  /\ UNCHANGED <<chatVars, sessVars, provVars, reqVars, calls, store, nupd, loopVars, windowVars, backend, modelVars>>

\* MessageInput.handleSend (the Send button or Enter): disabled is
\* !selectedModel
HandleSend ==
  /\ ~((Trim(draft.text) = <<>> /\ draft.files = 0) \/ isStreaming \/ selectedModel = NULL)
  /\ SendMessageBody(Trim(draft.text), draft.files)
  /\ draft' = EmptyDraft

NextInput ==
  \/ LoadSessions
  \/ LoadSessionsFail
  \/ \E c \in calls : SwitchSessionDone(c)
  \/ \E c \in calls : SwitchSessionFail(c)
  \/ \E m \in Models : HandleModelSelect(m)
  \/ \E c \in calls : UpdateSessionDone(c)
  \/ \E text \in Texts : TypeText(text)
  \/ AttachFile
  \/ HandleSend
  \/ \E text \in Texts : \E files \in FileCounts : SendMessageCall(text, files)
  \/ \E r \in ReqIds : FetchOk(r)
  \/ \E r \in ReqIds : FetchReject(r)
  \/ \E r \in ReqIds : ReadToken(r)
  \/ \E r \in ReqIds : \E full \in FinalChoices(r) : ReadContent(r, full)
  \/ \E c \in calls : RefreshDone(c)

SpecInput == Init /\ [][NextInput]_vars

\* sendMessage(content, files) is a call the claim says has no effect
BlankOrNoSession(content, files) ==
  activeSession = NoSession \/ (Trim(content) = <<>> /\ files = 0)

\* C30: sendMessage with no active session, or with blank text and no
\* attachment, has no effect; every accepted send appends exactly one user
\* message while no token is shown, clears the previous error and starts
\* exactly one request.
C30_SendGuardAndEffects ==
  [][\A content \in Texts : \A files \in FileCounts :
       SendMessageBody(content, files) =>
         IF BlankOrNoSession(content, files)
           THEN UNCHANGED <<chatVars, sessVars, reqVars, calls, store>>
         ELSE IF isStreaming
           THEN UNCHANGED <<chatVars, reqVars>>
         ELSE /\ Len(messages') = Len(messages) + 1
              /\ SubSeq(messages', 1, Len(messages)) = messages
              /\ messages'[Len(messages')].role = "user"
              /\ streamingContent' = <<>>
              /\ error' = NULL
              /\ nreq' = nreq + 1
              /\ \A r \in ReqIds :
                   IF r = nreq' THEN req[r] = NoReq /\ req'[r].phase = "Requesting"
                   ELSE req'[r] = req[r]]_vars

\* a second send was accepted after the first request had failed: its user
\* message is the last one, its request is open and the error is cleared
C30_Witness ==
  /\ nreq = 2 /\ req[2].phase = "Requesting" /\ error = NULL
  /\ req[1].phase = "Failed"
  /\ Len(messages) >= 2 /\ messages[Len(messages)].role = "user"

\* ---- the model list and the connection test of useProvider, with the
\* auto-fetch effect of App

MaxFetches == 2

\* the requests not answered yet
Pending == {f \in fetches : f.state = "pending"}

\* the request f is answered: it is kept with its outcome
Settle(f, outcome) == (fetches \ {f}) \cup {[f EXCEPT !.state = outcome]}

\* the models the backend lists for a provider, URL and key
ModelsOf(p, u, k) == <<[provider |-> p, url |-> u, key |-> k]>>

\* fetchModels() of the render with provider p, base URL u and key k:
\* setLoading(true) and the GET is issued
FetchModels(p, u, k) ==
  /\ modelsLoading' = TRUE
  /\ nfetch' = nfetch + 1
  /\ fetches' = fetches \cup {Fetch(nfetch + 1, "models", p, u, k)}

\* the auto-fetch effect of App after a render: it runs when provider,
\* baseUrl or apiKey changed; its cleanup clears the pending timer; for
\* ollama it fetches at once, else it arms the 500 ms timer
AutoFetchEffect ==
  IF <<provider', baseUrl', apiKey'>> = <<provider, baseUrl, apiKey>>
    THEN UNCHANGED <<modelsLoading, fetches, nfetch, fetchTimer>>
  ELSE IF provider' = "ollama"
    THEN /\ nfetch < MaxFetches
         /\ FetchModels(provider', baseUrl', apiKey')
         /\ fetchTimer' = FALSE
  ELSE /\ fetchTimer' = TRUE
       /\ UNCHANGED <<modelsLoading, fetches, nfetch>>

\* the provider toggle, with the effects of the render that follows
ProviderChange(p) ==
  /\ ~loading
  /\ provider' = p
  /\ UNCHANGED <<chatVars, sessVars, baseUrl, apiKey, selectedModel, reqVars, calls, store, nupd, loopVars, windowVars, backend, draft,
                 models, connectionStatus>>
  /\ PersistEffects
  /\ AutoFetchEffect

\* the base URL input, with the effects of the render that follows
BaseUrlChange(u) ==
  /\ ~loading
  /\ provider = "openai_compat"
  /\ baseUrl' = u
  /\ UNCHANGED <<chatVars, sessVars, provider, apiKey, selectedModel, reqVars, calls, store, nupd, loopVars, windowVars, backend, draft,
                 models, connectionStatus>>
  /\ PersistEffects
  /\ AutoFetchEffect

\* the API key input, with the effects of the render that follows
ApiKeyChange(k) ==
  /\ ~loading
  /\ provider = "openai_compat"
  /\ apiKey' = k
  /\ UNCHANGED <<chatVars, sessVars, provider, baseUrl, selectedModel, reqVars, calls, store, nupd, loopVars, windowVars, backend, draft,
                 models, connectionStatus>>
  /\ PersistEffects
  /\ AutoFetchEffect

\* applyPreset from the preset dropdown, with the effects of the render
\* that follows
PresetChange(u) ==
  /\ ~loading
  /\ provider = "openai_compat"
  /\ baseUrl' = u
  /\ provider' = "openai_compat"
  /\ connectionStatus' = NULL
  /\ models' = <<>>
  /\ selectedModel' = NULL
  /\ UNCHANGED <<chatVars, sessVars, apiKey, reqVars, calls, store, nupd, loopVars, windowVars, backend, draft>>
  /\ PersistEffects
  /\ AutoFetchEffect

\* the 500 ms timer of the effect fires
FetchTimerFires ==
  /\ fetchTimer
  /\ fetchTimer' = FALSE
  /\ IF baseUrl # "" \/ apiKey # ""
       THEN /\ nfetch < MaxFetches
            /\ FetchModels(provider, baseUrl, apiKey)
       ELSE UNCHANGED <<modelsLoading, fetches, nfetch>>
  /\ UNCHANGED <<chatVars, sessVars, provVars, reqVars, calls, store, nupd, loopVars, windowVars, backend, draft,
                 models, connectionStatus>>

\* the refresh button of ModelSelector, disabled while loading
RefreshModels ==
  /\ ~loading
  /\ ~modelsLoading
  /\ nfetch < MaxFetches
  /\ FetchModels(provider, baseUrl, apiKey)
  /\ UNCHANGED <<chatVars, sessVars, provVars, reqVars, calls, store, nupd, loopVars, windowVars, backend, draft,
                 models, connectionStatus, fetchTimer>>

\* fetchModels: listModels resolved
FetchModelsDone(f) ==
  /\ f \in Pending /\ f.op = "models"
  /\ models' = ModelsOf(f.provider, f.url, f.key)
  /\ modelsLoading' = FALSE
  /\ fetches' = Settle(f, "done")
  /\ UNCHANGED <<chatVars, sessVars, provVars, reqVars, calls, store, nupd, loopVars, windowVars, backend, draft,
                 connectionStatus, nfetch, fetchTimer>>

\* fetchModels: listModels rejected, and the list that was shown is kept
FetchModelsFailKeepsList(f) ==
  /\ f \in Pending /\ f.op = "models"
  /\ modelsLoading' = FALSE
  /\ fetches' = Settle(f, "failed")
  /\ UNCHANGED <<chatVars, sessVars, provVars, reqVars, calls, store, nupd, loopVars, windowVars, backend, draft,
                 models, connectionStatus, nfetch, fetchTimer>>

\* fetchModels: listModels rejected
FetchModelsFail(f) ==
  /\ f \in Pending /\ f.op = "models"
  /\ models' = <<>>
  /\ modelsLoading' = FALSE
  /\ fetches' = Settle(f, "failed")
  /\ UNCHANGED <<chatVars, sessVars, provVars, reqVars, calls, store, nupd, loopVars, windowVars, backend, draft,
                 connectionStatus, nfetch, fetchTimer>>

\* the Test Connection button, disabled while the status is 'testing'
TestConnection ==
  /\ ~loading
  /\ connectionStatus # "testing"
  /\ nfetch < MaxFetches
  /\ connectionStatus' = "testing"
  /\ nfetch' = nfetch + 1
  /\ fetches' = fetches \cup {Fetch(nfetch + 1, "probe", provider, baseUrl, apiKey)}
  /\ UNCHANGED <<chatVars, sessVars, provVars, reqVars, calls, store, nupd, loopVars, windowVars, backend, draft,
                 models, modelsLoading, fetchTimer>>

\* what the connection test of the backend answers
ProbeResults == {"connected", "failed"}

\* testConnection: the probe resolved with result.status; when connected,
\* the fetchModels that testConnection closed over is called
ProbeDone(f, status) ==
  /\ f \in Pending /\ f.op = "probe"
  /\ connectionStatus' = status
  /\ IF status = "connected"
       THEN /\ modelsLoading' = TRUE
            /\ nfetch' = nfetch + 1
            /\ fetches' = Settle(f, "done") \cup
                 {[f EXCEPT !.id = nfetch + 1, !.op = "models"]}
       ELSE /\ fetches' = Settle(f, "done")
            /\ UNCHANGED <<modelsLoading, nfetch>>
  /\ UNCHANGED <<chatVars, sessVars, provVars, reqVars, calls, store, nupd, loopVars, windowVars, backend, draft,
                 models, fetchTimer>>

\* testConnection: the probe rejected, and the status stays 'testing'
ProbeFailStaysTesting(f) ==
  /\ f \in Pending /\ f.op = "probe"
  /\ fetches' = Settle(f, "failed")
  /\ UNCHANGED <<chatVars, sessVars, provVars, reqVars, calls, store, nupd, loopVars, windowVars, backend, draft,
                 models, connectionStatus, modelsLoading, nfetch, fetchTimer>>

\* testConnection: the probe rejected
ProbeFail(f) ==
  /\ f \in Pending /\ f.op = "probe"
  /\ connectionStatus' = "failed"
  /\ fetches' = Settle(f, "failed")
  /\ UNCHANGED <<chatVars, sessVars, provVars, reqVars, calls, store, nupd, loopVars, windowVars, backend, draft,
                 models, modelsLoading, nfetch, fetchTimer>>

\* an answer to a provider request
AnswerProvider ==
  \E f \in fetches :
    \/ FetchModelsDone(f)
    \/ FetchModelsFail(f)
    \/ \E status \in ProbeResults : ProbeDone(f, status)
    \/ ProbeFail(f)

NextModels ==
  \/ LoadSessions
  \/ \E c \in calls : SwitchSessionDone(c)
  \/ \E p \in Providers : ProviderChange(p)
  \/ \E u \in Urls \cup {""} : BaseUrlChange(u)
  \/ \E k \in Keys \cup {""} : ApiKeyChange(k)
  \/ \E u \in Urls : PresetChange(u)
  \/ FetchTimerFires
  \/ RefreshModels
  \/ TestConnection
  \/ \E f \in fetches : FetchModelsDone(f)
  \/ \E f \in fetches : FetchModelsFail(f)
  \/ \E f \in fetches : \E status \in ProbeResults : ProbeDone(f, status)
  \/ \E f \in fetches : ProbeFail(f)

SpecModels == Init /\ [][NextModels]_vars

\* every provider request is answered: the backend bounds the time of a
\* connection test and of a listing
SpecModelsFair == SpecModels /\ WF_vars(AnswerProvider)

\* a connection test is started in this step
ProbeStarted ==
  \E f \in fetches' : f.op = "probe" /\ \A g \in fetches : g.id # f.id

C24_FailedListingEmptiesModels ==
  [][\A f \in Pending :
       (f.op = "models" /\ fetches' = Settle(f, "failed")) =>
         /\ models' = <<>>
         /\ modelsLoading' = FALSE
         /\ connectionStatus' = connectionStatus
         /\ error' = error]_vars

\* a listing failed after an earlier one had succeeded, and no list is shown
C24_Witness ==
  /\ models = <<>> /\ ~modelsLoading /\ Pending = {}
  /\ \E f, g \in fetches :
       /\ f.op = "models" /\ f.state = "failed"
       /\ g.op = "models" /\ g.state = "done" /\ g.id < f.id

\* the model listing issued last
LatestListing ==
  CHOOSE f \in fetches :
    f.op = "models" /\ \A g \in fetches : g.op = "models" => g.id <= f.id

\* C28: with overlapping model-list fetches, loading is true exactly while
\* at least one fetch is in flight, and after all of them settled the list
\* shown is the one of the fetch issued last.
C28_LatestListingWins ==
  /\ modelsLoading <=> (\E f \in Pending : f.op = "models")
  /\ (Pending = {} /\ ~fetchTimer /\ LatestListing.state = "done") =>
       models = ModelsOf(LatestListing.provider, LatestListing.url, LatestListing.key)

====
